---- MODULE Spec2Model ----
(***************************************************************************)
(* Maidenhead grid-square tool (gridsquare.hpp, claudeGridsquareCpp.cpp).  *)
(*                                                                         *)
(* Characters are their ASCII codes, strings are sequences of codes.       *)
(* Decoded coordinates are exact integers in units of 1/480 degree, the    *)
(* finest quantity the decoder adds (gridsquare.hpp:147).                  *)
(***************************************************************************)
EXTENDS Integers, Sequences, FiniteSets, TLC

VARIABLES
    op,        \* the library function that was called ("none" before the call)
    arg,       \* its arguments
    ret,       \* what it returned, or the exception it threw
    argv,      \* main: the command line after the program name, argv[1..argc-1]
    main       \* main: its position, its locals, its exit status and its output

vars == <<op, arg, ret, argv, main>>

(***************************************************************************)
(* Bounds of the model.                                                    *)
(***************************************************************************)
\* Longest argument string handed to toLatLon.
MaxLen == 8
\* A double holding degrees is an integer number of 2^-FracBits degree.
FracBits == 4
\* Largest magnitude, in degrees, of an angle handed to a function.
MaxAngle == 400
\* Significant bits of a double holding degrees (round to nearest, ties to even).
MantBits == 11
\* sin, cos and radians are integers in units of 2^-TrigBits.
TrigBits == 11
\* The coordinates handed to calculateBearing divide each axis in CoordSteps.
CoordSteps == 6
\* Most command-line arguments after the program name.
MaxArgs == 4

(***************************************************************************)
(* <cctype> as used by toLatLon ("C" locale, ASCII).                       *)
(***************************************************************************)
isupper(c) == c >= 65 /\ c <= 90
islower(c) == c >= 97 /\ c <= 122
isalpha(c) == isupper(c) \/ islower(c)
isdigit(c) == c >= 48 /\ c <= 57
toupper(c) == IF islower(c) THEN c - 32 ELSE c

\* Mutant: the string is left as typed.
UpperCase_asTyped(s) == s

\* std::transform(grid.begin(), grid.end(), grid.begin(), ::toupper)
UpperCase(s) == [k \in 1..Len(s) |-> toupper(s[k])]

Abs(x) == IF x < 0 THEN -x ELSE x

\* 'A' and '0'
ChA == 65
Ch0 == 48

\* One degree, in the model's units of 1/480 degree.
Deg == 480

\* The exception a function throws / the Coordinate toLatLon returns.
Throw(msg) == [ok |-> FALSE, what |-> msg]
Coordinate(lat, lon) == [ok |-> TRUE, latitude |-> lat, longitude |-> lon]

\* The format checks of toLatLon on the upper-cased string g, in the code's order
\* (C++ indexes from 0, TLA+ from 1).
BadLength(len) == len # 2 /\ len # 4 /\ len # 6 /\ len # 8
BadField(g) == ~isalpha(g[1]) \/ ~isalpha(g[2])

\* Mutant: rejects only when neither character is a digit.
BadSquare_both(g) == Len(g) >= 4 /\ (~isdigit(g[3]) /\ ~isdigit(g[4]))

BadSquare(g) == Len(g) >= 4 /\ (~isdigit(g[3]) \/ ~isdigit(g[4]))
BadSubsquare(g) == Len(g) >= 6 /\ (~isalpha(g[5]) \/ ~isalpha(g[6]))
BadExtended(g) == Len(g) = 8 /\ (~isdigit(g[7]) \/ ~isdigit(g[8]))

\* The accumulation and centre correction of toLatLon.
DecodeLon(g) ==
    LET len == Len(g)
        l0 == (g[1] - ChA) * (20 * Deg) - 180 * Deg
        l1 == IF len >= 4 THEN l0 + (g[3] - Ch0) * (2 * Deg) ELSE l0
        l2 == IF len >= 6 THEN l1 + (g[5] - ChA) * ((2 * Deg) \div 24) ELSE l1
        l3 == IF len = 8 THEN l2 + (g[7] - Ch0) * ((2 * Deg) \div 240) ELSE l2
    IN  IF len = 2 THEN l3 + 10 * Deg
        ELSE IF len = 4 THEN l3 + Deg
        ELSE IF len = 6 THEN l3 + Deg \div 24
        ELSE IF len = 8 THEN l3 + Deg \div 240
        ELSE l3

\* Mutant: the subsquare's latitude centre copied from the longitude line.
DecodeLat_copied(g) ==
    LET len == Len(g)
        l0 == (g[2] - ChA) * (10 * Deg) - 90 * Deg
        l1 == IF len >= 4 THEN l0 + (g[4] - Ch0) * Deg ELSE l0
        l2 == IF len >= 6 THEN l1 + (g[6] - ChA) * (Deg \div 24) ELSE l1
        l3 == IF len = 8 THEN l2 + (g[8] - Ch0) * (Deg \div 240) ELSE l2
    IN  IF len = 2 THEN l3 + 5 * Deg
        ELSE IF len = 4 THEN l3 + Deg \div 2
        ELSE IF len = 6 THEN l3 + Deg \div 24
        ELSE IF len = 8 THEN l3 + Deg \div 480
        ELSE l3

DecodeLat(g) ==
    LET len == Len(g)
        l0 == (g[2] - ChA) * (10 * Deg) - 90 * Deg
        l1 == IF len >= 4 THEN l0 + (g[4] - Ch0) * Deg ELSE l0
        l2 == IF len >= 6 THEN l1 + (g[6] - ChA) * (Deg \div 24) ELSE l1
        l3 == IF len = 8 THEN l2 + (g[8] - Ch0) * (Deg \div 240) ELSE l2
    IN  IF len = 2 THEN l3 + 5 * Deg
        ELSE IF len = 4 THEN l3 + Deg \div 2
        ELSE IF len = 6 THEN l3 + Deg \div 48
        ELSE IF len = 8 THEN l3 + Deg \div 480
        ELSE l3

\* Coordinate toLatLon(std::string grid)
toLatLon(s) ==
    LET g == UpperCase(s)
    IN  IF BadLength(Len(g))
        THEN Throw("Grid square must be 2, 4, 6, or 8 characters")
        ELSE IF BadField(g)
        THEN Throw("First two characters must be letters")
        ELSE IF BadSquare(g)
        THEN Throw("Characters 3-4 must be digits")
        ELSE IF BadSubsquare(g)
        THEN Throw("Characters 5-6 must be letters")
        ELSE IF BadExtended(g)
        THEN Throw("Characters 7-8 must be digits")
        ELSE Coordinate(DecodeLat(g), DecodeLon(g))

(***************************************************************************)
(* Inputs.                                                                 *)
(***************************************************************************)
\* 'B', 'y', '9', '-': an upper-case letter, a lower-case letter, a digit and
\* a character that is neither.
Chars == {66, 121, 57, 45}

\* The character classes and the case mappings, stated without <cctype>.
Letters == 65..90
Digits == 48..57
Upper(s) == [k \in 1..Len(s) |-> IF s[k] \in 97..122 THEN s[k] - 32 ELSE s[k]]
Lower(s) == [k \in 1..Len(s) |-> IF s[k] \in 65..90 THEN s[k] + 32 ELSE s[k]]
SwapCase(s) ==
    [k \in 1..Len(s) |-> IF s[k] \in 97..122 THEN s[k] - 32
                         ELSE IF s[k] \in 65..90 THEN s[k] + 32 ELSE s[k]]
FlipAt(s, j) == [k \in 1..Len(s) |-> IF k = j THEN SwapCase(s)[k] ELSE s[k]]

NoArg == <<>>
NoRet == [ok |-> FALSE, what |-> "not called"]

\* main before it is entered.
NotStarted == [pc |-> "none"]

InitCall ==
    /\ op = "none"
    /\ arg = NoArg
    /\ ret = NoRet
    /\ argv = <<>>
    /\ main = NotStarted

(***************************************************************************)
(* The decoder: one call of toLatLon on an arbitrary string.               *)
(***************************************************************************)
CallToLatLon ==
    /\ op = "none"
    /\ \E n \in 0..MaxLen : \E s \in [1..n -> Chars] :
         /\ arg' = s
         /\ ret' = toLatLon(s)
    /\ op' = "toLatLon"
    /\ UNCHANGED <<argv, main>>

NextDecode == CallToLatLon

SpecDecode == InitCall /\ [][NextDecode]_vars

(***************************************************************************)
(* Doubles holding degrees: integers in units of 1/AngleOne degree.        *)
(***************************************************************************)
AngleOne == 2 ^ FracBits

\* std::round of the quotient n / d (d > 0): to nearest, halves away from zero.
round(n, d) ==
    IF n >= 0 THEN (2 * n + d) \div (2 * d)
    ELSE -((2 * (-n) + d) \div (2 * d))

\* The C++ remainder a % n (n > 0), which takes the sign of a.
rem(a, n) == IF a >= 0 THEN a % n ELSE -((-a) % n)

\* const char* directions[]
directions ==
    <<"N", "NNE", "NE", "ENE", "E", "ESE", "SE", "SSE",
      "S", "SSW", "SW", "WSW", "W", "WNW", "NW", "NNW">>

\* Mutant: the quotient is truncated by the cast, std::round left out.
DirectionIndex_truncated(bearing) ==
    rem(IF bearing >= 0 THEN (2 * bearing) \div (45 * AngleOne)
        ELSE -((2 * (-bearing)) \div (45 * AngleOne)), 16)

\* int index = static_cast<int>(std::round(bearing / 22.5)) % 16;
\* bearing / 22.5 is the quotient 2 * bearing / (45 * AngleOne).
DirectionIndex(bearing) == rem(round(2 * bearing, 45 * AngleOne), 16)

\* What directions[index] can yield: the entry, or for an index outside the
\* array (undefined behaviour) any label or no string at all.
DirectionAt(index) ==
    IF index \in 0..15 THEN {directions[index + 1]}
    ELSE {directions[k] : k \in 1..16} \cup {"<out of bounds>"}

(***************************************************************************)
(* The direction lookup: one call of bearingToDirection.                   *)
(***************************************************************************)
CallBearingToDirection ==
    /\ op = "none"
    /\ \E bearing \in (-MaxAngle * AngleOne)..(MaxAngle * AngleOne) :
         /\ arg' = bearing
         /\ \E label \in DirectionAt(DirectionIndex(bearing)) :
              ret' = [ok |-> TRUE, index |-> DirectionIndex(bearing), label |-> label]
    /\ op' = "bearingToDirection"
    /\ UNCHANGED <<argv, main>>

NextDirection == CallBearingToDirection

SpecDirection == InitCall /\ [][NextDirection]_vars

(***************************************************************************)
(* Floating point.  A double holding degrees keeps MantBits significant    *)
(* bits of an integer number of 1/AngleOne degree; a sum is rounded to     *)
(* that format, a remainder (fmod) is exact.  Sines, cosines and radians   *)
(* are fixed-point numbers in units of 1/One; <cmath> is modelled by       *)
(* rational approximations that are exact where the library is:            *)
(* sin 0 = 0, cos 0 = 1, sqrt 0 = 0, sqrt 1 = 1, atan2(0, y >= 0) = 0.     *)
(***************************************************************************)
One == 2 ^ TrigBits

RECURSIVE BitLen(_)
BitLen(n) == IF n = 0 THEN 0 ELSE 1 + BitLen(n \div 2)

\* The double nearest to the integer v (ties to even).
RoundToDouble(v) ==
    LET m == Abs(v)
        q == 2 ^ (BitLen(m) - MantBits)
        lo == (m \div q) * q
        up == \/ 2 * (m - lo) > q
              \/ 2 * (m - lo) = q /\ (lo \div q) % 2 = 1
        r == IF up THEN lo + q ELSE lo
    IN  IF BitLen(m) <= MantBits THEN v
        ELSE IF v < 0 THEN -r ELSE r

\* a * b / c rounded to nearest, halves away from zero (c > 0), without
\* forming a product larger than c * b.
MulDiv(a, b, c) ==
    LET m == Abs(a)
        v == (m \div c) * b + ((m % c) * b + c \div 2) \div c
    IN  IF a < 0 THEN -v ELSE v

\* The fixed-point product of two numbers in units of 1/One.
Mul(a, b) ==
    LET v == (Abs(a) * Abs(b) + One \div 2) \div One
    IN  IF (a < 0) # (b < 0) THEN -v ELSE v

\* x / 2.0
Half(x) == IF x < 0 THEN -((-x) \div 2) ELSE x \div 2

\* M_PI (355/113), as twice its half so that cos(M_PI / 2) is 0.
HalfPi == (355 * One + 113) \div 226
Pi == 2 * HalfPi

\* std::cos on [-pi/2, pi/2]: (pi^2 - 4 x^2) / (pi^2 + x^2).
CosCore(x) ==
    LET num == (Pi * Pi - 4 * x * x) \div One
        den == (Pi * Pi + x * x) \div One
    IN  (One * num + den \div 2) \div den

\* std::cos
cos(x) ==
    LET m == Abs(x) % (2 * Pi)
        w == IF m > Pi THEN 2 * Pi - m ELSE m
    IN  IF w <= HalfPi THEN CosCore(w) ELSE -CosCore(Pi - w)

\* std::sin
sin(x) == IF x < 0 THEN -cos(HalfPi + x) ELSE cos(HalfPi - x)

RECURSIVE IntSqrt(_, _, _)
IntSqrt(n, lo, hi) ==
    IF lo >= hi THEN lo
    ELSE LET mid == (lo + hi + 1) \div 2
         IN  IF mid * mid <= n THEN IntSqrt(n, mid, hi) ELSE IntSqrt(n, lo, mid - 1)

\* std::sqrt of a number in [0, 1].
sqrt(v) == IntSqrt(v * One, 0, One)

\* atan of the quotient n / d, 0 <= n <= d, d > 0: z (pi/4 + 0.273 (1 - z)).
AtanCore(n, d) ==
    LET z == (n * One) \div d
    IN  (z * (HalfPi \div 2 + (273 * (One - z)) \div 1000) + One \div 2) \div One

\* std::atan2(y, x): the angle of the point (x, y), in [-pi, pi].
atan2(y, x) ==
    LET ay == Abs(y)
        ax == Abs(x)
        t == IF ay = 0 THEN 0
             ELSE IF ax >= ay THEN AtanCore(ay, ax)
             ELSE HalfPi - AtanCore(ax, ay)
        u == IF x < 0 THEN Pi - t ELSE t
    IN  IF y < 0 THEN -u ELSE u

\* degrees * M_PI / 180.0, from degrees in units of 1/Deg
toRadians(degrees) == MulDiv(degrees, Pi, 180 * Deg)

\* radians * 180.0 / M_PI, to a double in units of 1/AngleOne degree
toDegrees(radians) == RoundToDouble(MulDiv(radians, 180 * AngleOne, Pi))

\* double normalizeAngle(double angle)
normalizeAngle(angle) ==
    LET a == rem(angle, 360 * AngleOne)
    IN  IF a < 0 THEN RoundToDouble(a + 360 * AngleOne) ELSE a

EARTH_RADIUS_KM == 6371
EARTH_RADIUS_MI == 3959
EARTH_RADIUS_NM == 3440

Unit == {"KILOMETERS", "MILES", "NAUTICAL_MILES"}

\* double calculateDistance(coord1, coord2, unit), in units of 1/One of the unit
calculateDistance(coord1, coord2, unit) ==
    LET R == CASE unit = "KILOMETERS" -> EARTH_RADIUS_KM
               [] unit = "MILES" -> EARTH_RADIUS_MI
               [] unit = "NAUTICAL_MILES" -> EARTH_RADIUS_NM
               [] OTHER -> EARTH_RADIUS_KM
        lat1 == toRadians(coord1.latitude)
        lat2 == toRadians(coord2.latitude)
        dLat == toRadians(coord2.latitude - coord1.latitude)
        dLon == toRadians(coord2.longitude - coord1.longitude)
        a == Mul(sin(Half(dLat)), sin(Half(dLat)))
             + Mul(Mul(Mul(cos(lat1), cos(lat2)), sin(Half(dLon))), sin(Half(dLon)))
        c == 2 * atan2(sqrt(a), sqrt(One - a))
    IN  R * c

\* double calculateBearing(coord1, coord2), a double in units of 1/AngleOne degree
calculateBearing(coord1, coord2) ==
    LET lat1 == toRadians(coord1.latitude)
        lat2 == toRadians(coord2.latitude)
        dLon == toRadians(coord2.longitude - coord1.longitude)
        x == Mul(sin(dLon), cos(lat2))
        y == Mul(cos(lat1), sin(lat2)) - Mul(Mul(sin(lat1), cos(lat2)), cos(dLon))
        bearing == atan2(x, y)
    IN  normalizeAngle(toDegrees(bearing))

\* double distance(grid1, grid2, unit)
distance(grid1, grid2, unit) ==
    LET coord1 == toLatLon(grid1)
        coord2 == toLatLon(grid2)
    IN  IF ~coord1.ok THEN coord1
        ELSE IF ~coord2.ok THEN coord2
        ELSE [ok |-> TRUE, value |-> calculateDistance(coord1, coord2, unit)]

\* Mutant: the back bearing taken as the bearing turned by 180 degrees.
calculate_turned(grid1, grid2, unit) ==
    LET coord1 == toLatLon(grid1)
        coord2 == toLatLon(grid2)
    IN  IF ~coord1.ok THEN coord1
        ELSE IF ~coord2.ok THEN coord2
        ELSE [ok |-> TRUE,
              from |-> coord1,
              to |-> coord2,
              distance |-> calculateDistance(coord1, coord2, unit),
              bearing |-> calculateBearing(coord1, coord2),
              backBearing |->
                  (calculateBearing(coord1, coord2) + 180 * AngleOne) % (360 * AngleOne)]

\* DistanceResult calculate(grid1, grid2, unit)
calculate(grid1, grid2, unit) ==
    LET coord1 == toLatLon(grid1)
        coord2 == toLatLon(grid2)
    IN  IF ~coord1.ok THEN coord1
        ELSE IF ~coord2.ok THEN coord2
        ELSE [ok |-> TRUE,
              from |-> coord1,
              to |-> coord2,
              distance |-> calculateDistance(coord1, coord2, unit),
              bearing |-> calculateBearing(coord1, coord2),
              backBearing |-> calculateBearing(coord2, coord1)]

(***************************************************************************)
(* Angles: one call of normalizeAngle on a double, or of calculateBearing  *)
(* on two coordinates of a grid over the globe.                            *)
(***************************************************************************)
\* The doubles of magnitude up to MaxAngle degrees.
Doubles == {v \in (-MaxAngle * AngleOne)..(MaxAngle * AngleOne) : RoundToDouble(v) = v}

GridCoordinates ==
    {Coordinate((180 * Deg * i) \div CoordSteps - 90 * Deg,
                (360 * Deg * j) \div CoordSteps - 180 * Deg) :
        i \in 0..CoordSteps, j \in 0..CoordSteps}

CallNormalizeAngle ==
    /\ op = "none"
    /\ \E angle \in Doubles :
         /\ arg' = angle
         /\ ret' = [ok |-> TRUE, value |-> normalizeAngle(angle)]
    /\ op' = "normalizeAngle"
    /\ UNCHANGED <<argv, main>>

CallCalculateBearing ==
    /\ op = "none"
    /\ \E coord1 \in GridCoordinates, coord2 \in GridCoordinates :
         /\ arg' = <<coord1, coord2>>
         /\ ret' = [ok |-> TRUE, value |-> calculateBearing(coord1, coord2)]
    /\ op' = "calculateBearing"
    /\ UNCHANGED <<argv, main>>

NextBearing == CallNormalizeAngle \/ CallCalculateBearing

SpecBearing == InitCall /\ [][NextBearing]_vars

(***************************************************************************)
(* Locator pairs: one call of distance or of calculate.                    *)
(***************************************************************************)
\* 'A', 'r', 'Y' and '0', '9'
LocatorLetters == {65, 114, 89}
LocatorDigits == {48, 57}
PairsOf(C) == {<<a, b>> : a \in C, b \in C}
Fields == PairsOf(LocatorLetters)
Squares == {f \o q : f \in Fields, q \in PairsOf(LocatorDigits)}
Subsquares == {q \o b : q \in Squares, b \in PairsOf(LocatorLetters)}
Extended == {b \o e : b \in Subsquares, e \in PairsOf(LocatorDigits)}

\* "JO01" (a locator of the examples) and "FNAB" (not a locator)
Reference == <<74, 79, 48, 49>>
NotALocator == <<70, 78, 65, 66>>

FirstGrids == Fields \cup Squares \cup Subsquares \cup Extended \cup {NotALocator}
SecondGrids(grid1) == {grid1, SwapCase(grid1), Reference, NotALocator}

CallDistance ==
    /\ op = "none"
    /\ \E grid1 \in FirstGrids : \E grid2 \in SecondGrids(grid1), unit \in Unit :
         /\ arg' = <<grid1, grid2, unit>>
         /\ ret' = distance(grid1, grid2, unit)
    /\ op' = "distance"
    /\ UNCHANGED <<argv, main>>

CallCalculate ==
    /\ op = "none"
    /\ \E grid1 \in FirstGrids : \E grid2 \in SecondGrids(grid1), unit \in Unit :
         /\ arg' = <<grid1, grid2, unit>>
         /\ ret' = calculate(grid1, grid2, unit)
    /\ op' = "calculate"
    /\ UNCHANGED <<argv, main>>

NextCalculate == CallDistance \/ CallCalculate

SpecCalculate == InitCall /\ [][NextCalculate]_vars

(***************************************************************************)
(* The command line: main of claudeGridsquareCpp.cpp, one loop iteration   *)
(* per step.                                                               *)
(***************************************************************************)
\* "--help" "-h" "--verbose" "-v" "--unit" "-u" "km" "mi" "nm"
STR_help == <<45, 45, 104, 101, 108, 112>>
STR_h == <<45, 104>>
STR_verbose == <<45, 45, 118, 101, 114, 98, 111, 115, 101>>
STR_v == <<45, 118>>
STR_unit == <<45, 45, 117, 110, 105, 116>>
STR_u == <<45, 117>>
STR_km == <<107, 109>>
STR_mi == <<109, 105>>
STR_nm == <<110, 109>>

\* The tokens of the model's command lines: "-h", "-v", "--unit", "mi", "nm",
\* "-x", "CN87", "" and "F".
Tokens ==
    {STR_h, STR_v, STR_unit, STR_mi, STR_nm, <<45, 120>>,
     <<67, 78, 56, 55>>, <<>>, <<70>>}

\* arg[0] of a std::string: the terminating '\0' when the string is empty.
FirstChar(str) == IF Len(str) = 0 THEN 0 ELSE str[1]

\* The four pairs of runExamples.
Examples ==
    <<<<(<<70, 78, 52, 50>>), (<<74, 79, 48, 49>>)>>,
      <<(<<70, 78, 52, 50, 104, 110>>), (<<68, 77, 49, 51, 97, 116>>)>>,
      <<(<<67, 78, 56, 55>>), (<<67, 78, 56, 56>>)>>,
      <<(<<74, 78, 50, 53>>), (<<81, 70, 50, 50>>)>>>>

\* void runExamples(): each pair's result, or the error printed in its place.
runExamples ==
    [k \in 1..4 |-> calculate(Examples[k][1], Examples[k][2], "KILOMETERS")]

\* std::string unitToString(Unit unit)
unitToString(unit) ==
    CASE unit = "KILOMETERS" -> "km"
      [] unit = "MILES" -> "miles"
      [] unit = "NAUTICAL_MILES" -> "nm"
      [] OTHER -> "km"

\* void printVerboseResult(grid1, grid2, result): what it prints.
printVerboseResult(grid1, grid2, result) ==
    [kind |-> "verbose",
     from |-> result.from,
     to |-> result.to,
     distKm |-> distance(grid1, grid2, "KILOMETERS").value,
     distMi |-> distance(grid1, grid2, "MILES").value,
     distNm |-> distance(grid1, grid2, "NAUTICAL_MILES").value,
     bearing |-> result.bearing,
     direction |-> directions[DirectionIndex(result.bearing) + 1],
     backBearing |-> result.backBearing,
     backDirection |-> directions[DirectionIndex(result.backBearing) + 1]]

\* void printSimpleResult(double distance, Unit unit): what it prints.
printSimpleResult(dist, unit) ==
    [kind |-> "simple", distance |-> dist, label |-> unitToString(unit)]

\* return <status> after printing to std::cout / std::cerr.
Exit(m, status, out, err) ==
    [m EXCEPT !.pc = "exit", !.status = status, !.out = out, !.err = err]

InitMain ==
    /\ op = "none"
    /\ arg = NoArg
    /\ ret = NoRet
    /\ \E n \in 0..MaxArgs : argv \in [1..n -> Tokens]
    /\ main = [pc |-> "start", i |-> 1, grid1 |-> <<>>, grid2 |-> <<>>,
               unit |-> "KILOMETERS", verbose |-> FALSE,
               status |-> -1, out |-> <<>>, err |-> ""]

\* if (argc == 1) { runExamples(); ...; return 0; }
MainExamples ==
    /\ main.pc = "start"
    /\ Len(argv) = 0
    /\ main' = Exit(main, 0, <<[kind |-> "examples", results |-> runExamples]>>, "")
    /\ UNCHANGED <<op, arg, ret, argv>>

\* Otherwise the locals are declared and the loop is entered.
MainBeginParse ==
    /\ main.pc = "start"
    /\ Len(argv) # 0
    /\ main' = [main EXCEPT !.pc = "parse"]
    /\ UNCHANGED <<op, arg, ret, argv>>

\* One iteration of for (int i = 1; i < argc; i++).
MainParseArg ==
    /\ main.pc = "parse"
    /\ main.i <= Len(argv)
    /\ LET a == argv[main.i]
       IN  main' =
             IF a = STR_help \/ a = STR_h
             THEN Exit(main, 0, <<[kind |-> "usage"]>>, "")
             ELSE IF a = STR_verbose \/ a = STR_v
             THEN [main EXCEPT !.verbose = TRUE, !.i = @ + 1]
             ELSE IF a = STR_unit \/ a = STR_u
             THEN IF main.i + 1 <= Len(argv)
                  THEN LET unitStr == argv[main.i + 1]
                       IN  IF unitStr = STR_km
                           THEN [main EXCEPT !.unit = "KILOMETERS", !.i = @ + 2]
                           ELSE IF unitStr = STR_mi
                           THEN [main EXCEPT !.unit = "MILES", !.i = @ + 2]
                           ELSE IF unitStr = STR_nm
                           THEN [main EXCEPT !.unit = "NAUTICAL_MILES", !.i = @ + 2]
                           ELSE Exit(main, 1, <<>>, "Error: Unknown unit")
                  ELSE Exit(main, 1, <<>>, "Error: --unit requires an argument")
             ELSE IF FirstChar(a) = 45
             THEN Exit(main, 1, <<[kind |-> "usage"]>>, "Error: Unknown option")
             ELSE IF main.grid1 = <<>>
             THEN [main EXCEPT !.grid1 = a, !.i = @ + 1]
             ELSE IF main.grid2 = <<>>
             THEN [main EXCEPT !.grid2 = a, !.i = @ + 1]
             ELSE Exit(main, 1, <<[kind |-> "usage"]>>, "Error: Too many arguments")
    /\ UNCHANGED <<op, arg, ret, argv>>

\* After the loop: the required arguments, then the calculation and its output.
MainCalculate ==
    /\ main.pc = "parse"
    /\ main.i > Len(argv)
    /\ main' =
         IF main.grid1 = <<>> \/ main.grid2 = <<>>
         THEN Exit(main, 1, <<[kind |-> "usage"]>>,
                   "Error: Both GRID1 and GRID2 are required")
         ELSE IF main.verbose
         THEN LET result == calculate(main.grid1, main.grid2, main.unit)
              IN  IF result.ok
                  THEN Exit(main, 0,
                            <<printVerboseResult(main.grid1, main.grid2, result)>>, "")
                  ELSE Exit(main, 1, <<>>, "Error: " \o result.what)
         ELSE LET dist == distance(main.grid1, main.grid2, main.unit)
              IN  IF dist.ok
                  THEN Exit(main, 0, <<printSimpleResult(dist.value, main.unit)>>, "")
                  ELSE Exit(main, 1, <<>>, "Error: " \o dist.what)
    /\ UNCHANGED <<op, arg, ret, argv>>

NextMain == MainExamples \/ MainBeginParse \/ MainParseArg \/ MainCalculate

SpecMain == InitMain /\ [][NextMain]_vars

(***************************************************************************)
(* Properties of the decoder.                                              *)
(***************************************************************************)
Pair(u, k, class) == u[k] \in class /\ u[k + 1] \in class

\* The rejection rule on the upper-cased string u.
Malformed(u) ==
    \/ Len(u) \notin {2, 4, 6, 8}
    \/ ~Pair(u, 1, Letters)
    \/ Len(u) >= 4 /\ ~Pair(u, 3, Digits)
    \/ Len(u) >= 6 /\ ~Pair(u, 5, Letters)
    \/ Len(u) = 8 /\ ~Pair(u, 7, Digits)

\* "F", "12AB", "FNAB", and a nine-character string ("FN42HN42X").
NamedRejections ==
    /\ toLatLon(<<70>>) = Throw("Grid square must be 2, 4, 6, or 8 characters")
    /\ toLatLon(<<49, 50, 65, 66>>) = Throw("First two characters must be letters")
    /\ toLatLon(<<70, 78, 65, 66>>) = Throw("Characters 3-4 must be digits")
    /\ toLatLon(<<70, 78, 52, 50, 72, 78, 52, 50, 88>>)
         = Throw("Grid square must be 2, 4, 6, or 8 characters")

HalfWidth(len) == CASE len = 2 -> 4800 [] len = 4 -> 480 [] len = 6 -> 20 [] len = 8 -> 2
HalfHeight(len) == CASE len = 2 -> 2400 [] len = 4 -> 240 [] len = 6 -> 10 [] len = 8 -> 1

CentreLon(u) ==
    (u[1] - 65) * 9600 - 86400
    + (IF Len(u) >= 4 THEN (u[3] - 48) * 960 ELSE 0)
    + (IF Len(u) >= 6 THEN (u[5] - 65) * 40 ELSE 0)
    + (IF Len(u) = 8 THEN (u[7] - 48) * 4 ELSE 0)
    + HalfWidth(Len(u))

CentreLat(u) ==
    (u[2] - 65) * 4800 - 43200
    + (IF Len(u) >= 4 THEN (u[4] - 48) * 480 ELSE 0)
    + (IF Len(u) >= 6 THEN (u[6] - 65) * 20 ELSE 0)
    + (IF Len(u) = 8 THEN (u[8] - 48) * 2 ELSE 0)
    + HalfHeight(Len(u))

\* C2: an accepted locator decodes to the centre of its finest cell: the tier
\* offsets present for its length plus the half cell of that length.
DecodeIsCellCentre ==
    (op = "toLatLon" /\ ret.ok) =>
        /\ ret.longitude = CentreLon(Upper(arg))
        /\ ret.latitude = CentreLat(Upper(arg))

\* An accepted eight-character locator with a lower-case subsquare ("BB99yy99").
WitnessExtendedDecoded ==
    /\ op = "toLatLon"
    /\ arg = <<66, 66, 57, 57, 121, 121, 57, 57>>
    /\ ret.ok

\* C3: strings that differ only in the case of their letters are rejected with
\* the same error or decoded to the same coordinate.
DecodeIgnoresCase ==
    op = "toLatLon" =>
        /\ toLatLon(Upper(arg)) = ret
        /\ toLatLon(Lower(arg)) = ret
        /\ toLatLon(SwapCase(arg)) = ret
        /\ \A j \in 1..Len(arg) : toLatLon(FlipAt(arg, j)) = ret

\* An accepted six-character locator of mixed case ("By99yB").
WitnessMixedCaseDecoded ==
    /\ op = "toLatLon"
    /\ arg = <<66, 121, 57, 57, 121, 66>>
    /\ ret.ok
    /\ SwapCase(arg) # arg

\* C4: every coordinate the decoder returns has -90 <= latitude <= 90 and
\* -180 <= longitude <= 180.
DecodedInGeographicRange ==
    (op = "toLatLon" /\ ret.ok) =>
        /\ -43200 <= ret.latitude /\ ret.latitude <= 43200
        /\ -86400 <= ret.longitude /\ ret.longitude <= 86400

\* C5: the point of an accepted locator lies inside the cell of each of its
\* shorter prefixes of length 2, 4 or 6.
DecodedInsidePrefixCells ==
    (op = "toLatLon" /\ ret.ok) =>
        \A p \in {2, 4, 6} :
            p < Len(arg) =>
                LET cell == toLatLon(SubSeq(arg, 1, p))
                IN  /\ cell.ok
                    /\ Abs(ret.longitude - cell.longitude) <= HalfWidth(p)
                    /\ Abs(ret.latitude - cell.latitude) <= HalfHeight(p)

(***************************************************************************)
(* Properties of the direction lookup.                                     *)
(***************************************************************************)
Compass ==
    <<"N", "NNE", "NE", "ENE", "E", "ESE", "SE", "SSE",
      "S", "SSW", "SW", "WSW", "W", "WNW", "NW", "NNW">>

\* Bearing b (in units of 1/AngleOne degree) lies in the bucket of compass
\* point k: k * 22.5 - 11.25 <= b < k * 22.5 + 11.25, or the same for b - 360
\* (all multiplied by 4 to stay in whole numbers).
InBucket(b, k) ==
    \/ (90 * k - 45) * AngleOne <= 4 * b /\ 4 * b < (90 * k + 45) * AngleOne
    \/ (90 * k - 45) * AngleOne <= 4 * (b - 360 * AngleOne)
         /\ 4 * (b - 360 * AngleOne) < (90 * k + 45) * AngleOne

\* C7: for 0 <= b < 360, bearingToDirection returns the label of the compass
\* point whose 22.5-degree bucket contains b; 0 gives "N" and 180 gives "S".
DirectionIsBucketLabel ==
    (op = "bearingToDirection" /\ 0 <= arg /\ arg < 360 * AngleOne) =>
        /\ \E k \in 0..15 :
             InBucket(arg, k) /\ ret.index = k /\ ret.label = Compass[k + 1]
        /\ arg = 0 => ret.label = "N"
        /\ arg = 180 * AngleOne => ret.label = "S"

\* Bearing 348.75, the boundary at which the lookup wraps to "N".
WitnessWrapsToNorth ==
    /\ op = "bearingToDirection"
    /\ 4 * arg = 1395 * AngleOne
    /\ ret.label = "N"

\* C10: bearingToDirection never indexes outside its 16-entry table, for any
\* bearing, negative ones and those of 360 and more included.
DirectionIndexInTable ==
    op = "bearingToDirection" =>
        /\ ret.index \in 0..15
        /\ ret.label \in {Compass[k] : k \in 1..16}

(***************************************************************************)
(* Properties of the angles and of the locator pairs.                      *)
(***************************************************************************)
\* C6: normalizeAngle and calculateBearing return r with 0 <= r < 360, never 360.
BearingInHalfOpenRange ==
    op \in {"normalizeAngle", "calculateBearing"} =>
        0 <= ret.value /\ ret.value < 360 * AngleOne

\* C8: for a valid locator g in any letter case and any unit, distance(g, g)
\* is 0 and calculate(g, g) has distance, bearing and back bearing 0 and both
\* coordinates equal to the decoded g.
SameLocatorGivesZero ==
    (op \in {"distance", "calculate"} /\ Upper(arg[1]) = Upper(arg[2])
        /\ ~Malformed(Upper(arg[1]))) =>
        /\ ret.ok
        /\ op = "distance" => ret.value = 0
        /\ op = "calculate" =>
             /\ ret.distance = 0
             /\ ret.bearing = 0
             /\ ret.backBearing = 0
             /\ ret.from = [ok |-> TRUE, latitude |-> CentreLat(Upper(arg[1])),
                                        longitude |-> CentreLon(Upper(arg[1]))]
             /\ ret.to = ret.from

\* calculate on an eight-character locator and its other-case spelling, in miles.
WitnessSameLocatorCalculated ==
    /\ op = "calculate"
    /\ arg = <<<<65, 114, 48, 57, 89, 65, 57, 48>>,
               <<97, 82, 48, 57, 121, 97, 57, 48>>, "MILES">>
    /\ ret.ok
    /\ ret.distance = 0

(***************************************************************************)
(* Properties of the command line.                                         *)
(***************************************************************************)
IsHelp(t) == t = <<45, 45, 104, 101, 108, 112>> \/ t = <<45, 104>>
IsVerbose(t) == t = <<45, 45, 118, 101, 114, 98, 111, 115, 101>> \/ t = <<45, 118>>
IsUnitOption(t) == t = <<45, 45, 117, 110, 105, 116>> \/ t = <<45, 117>>
IsUnitName(t) == t \in {<<107, 109>>, <<109, 105>>, <<110, 109>>}
IsFlag(t) == Len(t) > 0 /\ t[1] = 45

\* The positional arguments of a command line: the tokens that are no flag
\* and no value of a --unit/-u, the empty string counted like any other.
Positionals(av) ==
    {k \in 1..Len(av) : ~IsFlag(av[k]) /\ ~(k > 1 /\ IsUnitOption(av[k - 1]))}

\* The argument errors: an unknown flag, a --unit/-u without a value or with a
\* value other than km, mi, nm, or a number of positional arguments other than 2.
ArgumentError(av) ==
    \/ \E k \in 1..Len(av) :
         IsFlag(av[k]) /\ ~IsHelp(av[k]) /\ ~IsVerbose(av[k]) /\ ~IsUnitOption(av[k])
    \/ IsUnitOption(av[Len(av)])
    \/ \E k \in 1..(Len(av) - 1) : IsUnitOption(av[k]) /\ ~IsUnitName(av[k + 1])
    \/ Cardinality(Positionals(av)) # 2

\* C9: a non-empty command line without --help/-h that has an argument error
\* makes main print an error and return 1 without printing any distance.
ArgumentErrorExits1 ==
    (main.pc = "exit" /\ Len(argv) > 0 /\ (\A k \in 1..Len(argv) : ~IsHelp(argv[k]))
        /\ ArgumentError(argv)) =>
        /\ main.status = 1
        /\ main.err # ""
        /\ \A k \in 1..Len(main.out) : main.out[k].kind = "usage"

====
